---- MODULE Spec2Model ----
(***************************************************************************)
(* Schema-migration bootstrap of the neuronotes desktop shell              *)
(* (src-tauri/src/main.rs).                                                *)
(*                                                                         *)
(* get_migrations() is the migration registry: three forward migrations    *)
(* whose scripts are SQL DDL.  main() registers that list under two        *)
(* database identifiers and hands control to the runtime, whose SQL plugin *)
(* (the migration runner) applies the pending scripts to the database      *)
(* files.  The scripts are modelled statement by statement with SQLite's   *)
(* DDL semantics; the runner, which is not part of this repository, is     *)
(* modelled from its contract in spec.md sections 3, 4.2 and 7.            *)
(***************************************************************************)
EXTENDS Integers, Sequences, FiniteSets, TLC

VARIABLES
    pc,          \* position of the process in main(): see PcValues
    registered,  \* the SQL plugin builder's map: identifier -> migration list
    schema,      \* per database file: table name -> set of column names
    marker,      \* per database file: the applied-version marker
    applied,     \* per database file: versions applied successfully, in order (history)
    todo,        \* identifiers the runner still has to process in this startup
    opened,      \* identifiers the runner has fully processed in this startup
    cur,         \* identifier the runner is processing, or NoDb
    pending,     \* migration records still to apply to cur, in application order
    atStart,     \* per identifier: marker and schema read when the runner opened it
    appliedNow,  \* per identifier: versions applied in this startup, in order
    lastErr,     \* error surfaced by the runner in this startup, or NoErr
    starts,      \* number of process starts so far
    tDb,         \* script harness: the database the scripts are applied to
    tLast,       \* script harness: outcome of the last application
    tSteps       \* script harness: number of applications so far

vars == <<pc, registered, schema, marker, applied, todo, opened, cur, pending,
          atStart, appliedNow, lastErr, starts, tDb, tLast, tSteps>>

harnessVars == <<tDb, tLast, tSteps>>

(***************************************************************************)
(* Bounds.                                                                 *)
(***************************************************************************)
\* process starts (first start plus restarts) explored
MaxStarts == 3
\* script applications per harness run
MaxScriptSteps == 2

(***************************************************************************)
(* SQL DDL statements and their execution.                                 *)
(***************************************************************************)
\* CREATE TABLE [IF NOT EXISTS] t (cols)
CreateTable(t, cols, ine) ==
    [op |-> "create", table |-> t, cols |-> cols, if_not_exists |-> ine]

\* ALTER TABLE t ADD COLUMN c
AddColumn(t, c) ==
    [op |-> "add_column", table |-> t, cols |-> {c}, if_not_exists |-> FALSE]

NoErr == "none"

\* a database with no tables
EmptyDb == [t \in {} |-> {}]

\* db with table t set to cols, the other tables kept
WithTable(db, t, cols) ==
    [x \in (DOMAIN db) \cup {t} |-> IF x = t THEN cols ELSE db[x]]

\* One statement against db: [ok, err, db].
ExecStmt(s, db) ==
    IF s.op = "create"
    THEN IF s.table \in DOMAIN db
         THEN IF s.if_not_exists
              THEN [ok |-> TRUE, err |-> NoErr, db |-> db]
              ELSE [ok |-> FALSE, err |-> "table already exists", db |-> db]
         ELSE [ok |-> TRUE, err |-> NoErr, db |-> WithTable(db, s.table, s.cols)]
    ELSE IF s.table \notin DOMAIN db
         THEN [ok |-> FALSE, err |-> "no such table", db |-> db]
         ELSE IF s.cols \cap db[s.table] # {}
              THEN [ok |-> FALSE, err |-> "duplicate column name", db |-> db]
              ELSE [ok |-> TRUE, err |-> NoErr,
                    db |-> WithTable(db, s.table, db[s.table] \cup s.cols)]

\* The statements of a script in order, stopping at the first error.
RECURSIVE ExecScript(_, _)
ExecScript(script, db) ==
    IF script = <<>>
    THEN [ok |-> TRUE, err |-> NoErr, db |-> db]
    ELSE LET r == ExecStmt(Head(script), db)
         IN  IF r.ok THEN ExecScript(Tail(script), r.db) ELSE r

(***************************************************************************)
(* The migration registry.                                                 *)
(***************************************************************************)
Migration(v, d, sql, k) ==
    [version |-> v, description |-> d, sql |-> sql, kind |-> k]

\* Variant: the tables created without IF NOT EXISTS.
create_tables_strict ==
    << CreateTable("workspaces", {"id", "name", "order"}, FALSE),
       CreateTable("folders", {"id", "name", "workspace_id", "order"}, FALSE),
       CreateTable("notes", {"id", "title", "content_html", "updated_at",
                             "workspace_id", "folder_id", "order", "type",
                             "spreadsheet"}, FALSE),
       CreateTable("calendarEvents", {"id", "date", "title", "time",
                                      "workspace_id"}, FALSE),
       CreateTable("kanban", {"workspace_id", "columns"}, FALSE),
       CreateTable("settings", {"key", "value"}, FALSE) >>

create_initial_tables ==
    << CreateTable("workspaces", {"id", "name", "order"}, TRUE),
       CreateTable("folders", {"id", "name", "workspace_id", "order"}, TRUE),
       CreateTable("notes", {"id", "title", "content_html", "updated_at",
                             "workspace_id", "folder_id", "order", "type",
                             "spreadsheet"}, TRUE),
       CreateTable("calendarEvents", {"id", "date", "title", "time",
                                      "workspace_id"}, TRUE),
       CreateTable("kanban", {"workspace_id", "columns"}, TRUE),
       CreateTable("settings", {"key", "value"}, TRUE) >>

add_calendar_repeat_fields ==
    << AddColumn("calendarEvents", "repeat"),
       AddColumn("calendarEvents", "repeat_on"),
       AddColumn("calendarEvents", "repeat_end"),
       AddColumn("calendarEvents", "exceptions") >>

add_calendar_event_color ==
    << AddColumn("calendarEvents", "color") >>

\* Variant: v2 forgets the exceptions column.
get_migrations_missing_column ==
    << Migration(1, "create_initial_tables", create_initial_tables, "Up"),
       Migration(2, "add_calendar_repeat_fields",
                 SubSeq(add_calendar_repeat_fields, 1, 3), "Up"),
       Migration(3, "add_calendar_event_color", add_calendar_event_color, "Up") >>

\* Variant: the colour migration is listed before the repeat-fields migration.
get_migrations_unordered ==
    << Migration(1, "create_initial_tables", create_initial_tables, "Up"),
       Migration(3, "add_calendar_event_color", add_calendar_event_color, "Up"),
       Migration(2, "add_calendar_repeat_fields", add_calendar_repeat_fields, "Up") >>

\* Variant: the third migration reuses version 2.
get_migrations_reused_version ==
    << Migration(1, "create_initial_tables", create_initial_tables, "Up"),
       Migration(2, "add_calendar_repeat_fields", add_calendar_repeat_fields, "Up"),
       Migration(2, "add_calendar_event_color", add_calendar_event_color, "Up") >>

\* Variant: v3 adds a column under another name, so it no longer collides with color.
get_migrations_colour ==
    << Migration(1, "create_initial_tables", create_initial_tables, "Up"),
       Migration(2, "add_calendar_repeat_fields", add_calendar_repeat_fields, "Up"),
       Migration(3, "add_calendar_event_color",
                 << AddColumn("calendarEvents", "colour") >>, "Up") >>

\* Variant: the shipped v2 script is edited to add color as well.
get_migrations_edited_v2 ==
    << Migration(1, "create_initial_tables", create_initial_tables, "Up"),
       Migration(2, "add_calendar_repeat_fields",
                 add_calendar_repeat_fields \o add_calendar_event_color, "Up"),
       Migration(3, "add_calendar_event_color", add_calendar_event_color, "Up") >>

get_migrations ==
    << Migration(1, "create_initial_tables", create_initial_tables, "Up"),
       Migration(2, "add_calendar_repeat_fields", add_calendar_repeat_fields, "Up"),
       Migration(3, "add_calendar_event_color", add_calendar_event_color, "Up") >>

(***************************************************************************)
(* Database identifiers and the files they denote.                         *)
(***************************************************************************)
\* "sqlite:neuronotes.db"
PROD_DB == <<"sqlite", ":", "neuronotes", ".db">>

\* Variant: the development registration repeats the production identifier.
DEV_DB_same_file == <<"sqlite", ":", "neuronotes", ".db">>

\* "sqlite:neuronotes_dev.db"
DEV_DB == <<"sqlite", ":", "neuronotes", "_dev", ".db">>

DbIds == {PROD_DB, DEV_DB}

\* the file an identifier denotes: what follows the "sqlite:" scheme
PathOf(id) == SubSeq(id, 3, Len(id))

Files == {PathOf(id) : id \in DbIds}

NoDb == <<>>

\* the argument of the first add_migrations call
prod_migrations == get_migrations

\* Variant: the development database is registered without the last migration.
dev_migrations_stale == SubSeq(get_migrations, 1, Len(get_migrations) - 1)

\* the argument of the second add_migrations call
dev_migrations == get_migrations

\* the builder's map with `list` stored under `id`
add_migrations(map, id, list) ==
    [x \in (DOMAIN map) \cup {id} |-> IF x = id THEN list ELSE map[x]]

\* Variant: an Err makes main start over instead of aborting.
expect_retry(result) == IF result = "Err" THEN "start" ELSE "exited"

\* .expect(...) on the result of run(): an Err aborts the process
expect(result) == IF result = "Err" THEN "aborted" ELSE "exited"

PcValues == {"start", "prod_added", "built", "setup", "running", "aborted", "exited"}

(***************************************************************************)
(* The migration runner.                                                   *)
(***************************************************************************)
\* `list` with record m inserted before the first record of a greater version
RECURSIVE InsertByVersion(_, _)
InsertByVersion(m, list) ==
    IF list = <<>> THEN <<m>>
    ELSE IF Head(list).version > m.version THEN <<m>> \o list
    ELSE <<Head(list)>> \o InsertByVersion(m, Tail(list))

RECURSIVE SortByVersion(_)
SortByVersion(list) ==
    IF list = <<>> THEN <<>>
    ELSE InsertByVersion(list[Len(list)], SortByVersion(SubSeq(list, 1, Len(list) - 1)))

\* the records whose version exceeds marker m, in ascending version order
Pending(list, m) ==
    SortByVersion(SelectSeq(list, LAMBDA r : r.version > m))

\* One script as a failure-atomic unit: on any error the database is unchanged.
ApplyMigration(m, db, io_ok) ==
    IF ~io_ok
    THEN [ok |-> FALSE, err |-> "disk I/O error", db |-> db]
    ELSE LET r == ExecScript(m.sql, db)
         IN  IF r.ok THEN r ELSE [ok |-> FALSE, err |-> r.err, db |-> db]

NoRead == [marker |-> -1, schema |-> EmptyDb]

NoResult == [ver |-> 0, ok |-> TRUE, err |-> NoErr, before |-> EmptyDb]

(***************************************************************************)
(* The process: main() and the startup it triggers.                        *)
(***************************************************************************)
Init ==
    /\ pc = "start"
    /\ registered = [id \in {} |-> <<>>]
    /\ schema = [f \in Files |-> EmptyDb]
    /\ marker = [f \in Files |-> 0]
    /\ applied = [f \in Files |-> <<>>]
    /\ todo = {}
    /\ opened = {}
    /\ cur = NoDb
    /\ pending = <<>>
    /\ atStart = [id \in DbIds |-> NoRead]
    /\ appliedNow = [id \in DbIds |-> <<>>]
    /\ lastErr = NoErr
    /\ starts = 1
    /\ tDb = EmptyDb
    /\ tLast = NoResult
    /\ tSteps = 0

\* .add_migrations("sqlite:neuronotes.db", get_migrations())
AddMigrationsProd ==
    /\ pc = "start"
    /\ registered' = add_migrations(registered, PROD_DB, prod_migrations)
    /\ pc' = "prod_added"
    /\ UNCHANGED <<schema, marker, applied, todo, opened, cur, pending, atStart,
                   appliedNow, lastErr, starts, harnessVars>>

\* .add_migrations("sqlite:neuronotes_dev.db", get_migrations()).build()
AddMigrationsDev ==
    /\ pc = "prod_added"
    /\ registered' = add_migrations(registered, DEV_DB, dev_migrations)
    /\ pc' = "built"
    /\ UNCHANGED <<schema, marker, applied, todo, opened, cur, pending, atStart,
                   appliedNow, lastErr, starts, harnessVars>>

\* .run(...): the runtime starts and decides which registered databases to load
Run(S) ==
    /\ pc = "built"
    /\ S # {}
    /\ todo' = S
    /\ pc' = "setup"
    /\ UNCHANGED <<registered, schema, marker, applied, opened, cur, pending, atStart,
                   appliedNow, lastErr, starts, harnessVars>>

\* the runner opens (or creates) the file of id and reads its marker
OpenDb(id, io_ok) ==
    /\ pc = "setup"
    /\ cur = NoDb
    /\ id \in todo
    /\ IF io_ok
       THEN /\ cur' = id
            /\ atStart' = [atStart EXCEPT ![id] =
                              [marker |-> marker[PathOf(id)], schema |-> schema[PathOf(id)]]]
            /\ pending' = Pending(registered[id], marker[PathOf(id)])
            /\ UNCHANGED <<pc, lastErr>>
       ELSE /\ lastErr' = "unable to open database file"
            /\ pc' = expect("Err")
            /\ UNCHANGED <<cur, atStart, pending>>
    /\ UNCHANGED <<registered, schema, marker, applied, todo, opened, appliedNow,
                   starts, harnessVars>>

\* the runner applies the next pending script to cur and advances the marker
ApplyNext(io_ok) ==
    /\ pc = "setup"
    /\ cur # NoDb
    /\ pending # <<>>
    /\ LET m == Head(pending)
           f == PathOf(cur)
           r == ApplyMigration(m, schema[f], io_ok)
       IN  IF r.ok
           THEN /\ schema' = [schema EXCEPT ![f] = r.db]
                /\ marker' = [marker EXCEPT ![f] = m.version]
                /\ applied' = [applied EXCEPT ![f] = Append(@, m.version)]
                /\ appliedNow' = [appliedNow EXCEPT ![cur] = Append(@, m.version)]
                /\ pending' = Tail(pending)
                /\ UNCHANGED <<pc, lastErr>>
           ELSE /\ lastErr' = r.err
                /\ pc' = expect("Err")
                /\ UNCHANGED <<schema, marker, applied, appliedNow, pending>>
    /\ UNCHANGED <<registered, todo, opened, cur, atStart, starts, harnessVars>>

\* nothing is pending any more for cur
CloseDb ==
    /\ pc = "setup"
    /\ cur # NoDb
    /\ pending = <<>>
    /\ opened' = opened \cup {cur}
    /\ todo' = todo \ {cur}
    /\ cur' = NoDb
    /\ UNCHANGED <<pc, registered, schema, marker, applied, pending, atStart,
                   appliedNow, lastErr, starts, harnessVars>>

\* every database to load is migrated: the application runs
Ready ==
    /\ pc = "setup"
    /\ cur = NoDb
    /\ todo = {}
    /\ pc' = "running"
    /\ UNCHANGED <<registered, schema, marker, applied, todo, opened, cur, pending,
                   atStart, appliedNow, lastErr, starts, harnessVars>>

\* the user quits: run() returns Ok
Exit ==
    /\ pc = "running"
    /\ pc' = expect("Ok")
    /\ UNCHANGED <<registered, schema, marker, applied, todo, opened, cur, pending,
                   atStart, appliedNow, lastErr, starts, harnessVars>>

\* the application is started again: a new process, the database files persist
Restart ==
    /\ pc \in {"aborted", "exited"}
    /\ starts < MaxStarts
    /\ starts' = starts + 1
    /\ pc' = "start"
    /\ registered' = [id \in {} |-> <<>>]
    /\ todo' = {}
    /\ opened' = {}
    /\ cur' = NoDb
    /\ pending' = <<>>
    /\ atStart' = [id \in DbIds |-> NoRead]
    /\ appliedNow' = [id \in DbIds |-> <<>>]
    /\ lastErr' = NoErr
    /\ UNCHANGED <<schema, marker, applied, harnessVars>>

Next ==
    \/ AddMigrationsProd
    \/ AddMigrationsDev
    \/ \E S \in SUBSET (DOMAIN registered) : Run(S)
    \/ \E id \in DbIds, io_ok \in BOOLEAN : OpenDb(id, io_ok)
    \/ \E io_ok \in BOOLEAN : ApplyNext(io_ok)
    \/ CloseDb
    \/ Ready
    \/ Exit
    \/ Restart

Spec == Init /\ [][Next]_vars

(***************************************************************************)
(* Script harness: the registry's scripts applied, one failure-atomic unit *)
(* at a time, to databases in arbitrary stages of prior application.       *)
(***************************************************************************)
TableNames == {create_initial_tables[i].table : i \in DOMAIN create_initial_tables}

\* the columns v1 gives table t
V1Cols(t) ==
    (CHOOSE s \in {create_initial_tables[i] : i \in DOMAIN create_initial_tables} :
        s.table = t).cols

\* the columns the later migrations add to calendarEvents
LaterCols ==
    UNION {add_calendar_repeat_fields[i].cols : i \in DOMAIN add_calendar_repeat_fields}
    \cup UNION {add_calendar_event_color[i].cols : i \in DOMAIN add_calendar_event_color}

\* Any subset of the six tables, each as v1 creates it, calendarEvents with
\* any subset of the later columns already present.
InputDbs ==
    { [t \in S |-> IF t = "calendarEvents" THEN V1Cols(t) \cup X ELSE V1Cols(t)] :
        S \in SUBSET TableNames, X \in SUBSET LaterCols }

ScriptInit ==
    /\ pc = "start"
    /\ registered = [id \in {} |-> <<>>]
    /\ schema = [f \in Files |-> EmptyDb]
    /\ marker = [f \in Files |-> 0]
    /\ applied = [f \in Files |-> <<>>]
    /\ todo = {}
    /\ opened = {}
    /\ cur = NoDb
    /\ pending = <<>>
    /\ atStart = [id \in DbIds |-> NoRead]
    /\ appliedNow = [id \in DbIds |-> <<>>]
    /\ lastErr = NoErr
    /\ starts = 1
    /\ tDb \in InputDbs
    /\ tLast = NoResult
    /\ tSteps = 0

\* record i of the registry applied to tDb
ApplyScript(i) ==
    /\ tSteps < MaxScriptSteps
    /\ LET m == get_migrations[i]
           r == ApplyMigration(m, tDb, TRUE)
       IN  /\ tLast' = [ver |-> m.version, ok |-> r.ok, err |-> r.err, before |-> tDb]
           /\ tDb' = r.db
    /\ tSteps' = tSteps + 1
    /\ UNCHANGED <<pc, registered, schema, marker, applied, todo, opened, cur, pending,
                   atStart, appliedNow, lastErr, starts>>

ScriptNext == \E i \in DOMAIN get_migrations : ApplyScript(i)

ScriptSpec == ScriptInit /\ [][ScriptNext]_vars

(***************************************************************************)
(* The persisted layout of spec.md section 6, by applied version.          *)
(***************************************************************************)
CalendarBase == {"id", "date", "title", "time", "workspace_id"}

RepeatCols == {"repeat", "repeat_on", "repeat_end", "exceptions"}

SixTables == {"workspaces", "folders", "notes", "calendarEvents", "kanban", "settings"}

Layout(calendarCols) ==
    [t \in SixTables |->
        CASE t = "workspaces" -> {"id", "name", "order"}
          [] t = "folders" -> {"id", "name", "workspace_id", "order"}
          [] t = "notes" -> {"id", "title", "content_html", "updated_at", "workspace_id",
                             "folder_id", "order", "type", "spreadsheet"}
          [] t = "calendarEvents" -> calendarCols
          [] t = "kanban" -> {"workspace_id", "columns"}
          [] t = "settings" -> {"key", "value"}]

Section6 == Layout(CalendarBase \cup RepeatCols \cup {"color"})

SchemaAt(m) ==
    IF m = 0 THEN EmptyDb
    ELSE Layout(CalendarBase \cup (IF m >= 2 THEN RepeatCols ELSE {})
                             \cup (IF m >= 3 THEN {"color"} ELSE {}))

\* the versions k+1..3 in ascending order
VersionsAfter(k) == [i \in 1..(3 - k) |-> k + i]

\* every script of the registry, in list order, applied to an empty database
RECURSIVE ApplyAll(_, _)
ApplyAll(list, db) ==
    IF list = <<>> THEN db
    ELSE ApplyAll(Tail(list), ApplyMigration(Head(list), db, TRUE).db)

IsPrefix(s, t) == Len(s) <= Len(t) /\ s = SubSeq(t, 1, Len(s))

NoDuplicates(s) == \A i, j \in DOMAIN s : i # j => s[i] # s[j]

TypeOK ==
    /\ pc \in PcValues
    /\ DOMAIN registered \subseteq DbIds
    /\ todo \subseteq DbIds /\ opened \subseteq DbIds
    /\ cur \in DbIds \cup {NoDb}
    /\ starts \in 1..(MaxStarts + 1)
    /\ tSteps \in 0..(MaxScriptSteps + 1)

(***************************************************************************)
(* Properties.                                                             *)
(***************************************************************************)

\* C1: a database file to which the runner has applied exactly v1, v2, v3, in
\* that order, starting empty with marker 0, holds exactly the six tables of
\* section 6 with exactly their columns; calendarEvents has exactly id, date,
\* title, time, workspace_id, repeat, repeat_on, repeat_end, exceptions, color.
C1_FreshInstallLayout ==
    \A f \in Files :
        applied[f] = <<1, 2, 3>> =>
            /\ DOMAIN schema[f] = SixTables
            /\ schema[f] = Section6
            /\ schema[f]["calendarEvents"] =
                   {"id", "date", "title", "time", "workspace_id", "repeat",
                    "repeat_on", "repeat_end", "exceptions", "color"}

C1_Witness ==
    \E f \in Files : applied[f] = <<1, 2, 3>> /\ marker[f] = 3

\* C2: in every registered migration list the versions strictly increase from
\* one record to the next, no version occurs twice, the first version is 1 and
\* every record is an Up migration.
C2_VersionsAscending ==
    \A id \in DOMAIN registered :
        LET l == registered[id]
        IN  /\ Len(l) >= 1
            /\ l[1].version = 1
            /\ \A i \in 1..(Len(l) - 1) : l[i].version < l[i + 1].version
            /\ \A i, j \in DOMAIN l : i # j => l[i].version # l[j].version
            /\ \A i \in DOMAIN l : l[i].kind = "Up"

C2_Witness ==
    DOMAIN registered = DbIds /\ pc = "built"

\* C3: in each startup the versions the runner applies to a database are, in
\* order, the versions above the marker it read when it opened the database,
\* the marker following each success; a database it has finished has had all
\* of them applied (none when the marker was 3); and over all starts no
\* version is applied twice to the same file.
C3_PendingOnlyOnce ==
    /\ \A id \in DbIds :
          atStart[id] # NoRead =>
              LET k == atStart[id].marker
              IN  /\ IsPrefix(appliedNow[id], VersionsAfter(k))
                  /\ marker[PathOf(id)] = k + Len(appliedNow[id])
                  /\ id \in opened => appliedNow[id] = VersionsAfter(k)
                  /\ k = 3 => appliedNow[id] = <<>>
    /\ \A f \in Files : NoDuplicates(applied[f])

C3_Witness ==
    /\ starts >= 2
    /\ \E id \in opened :
          /\ atStart[id].marker = 3
          /\ appliedNow[id] = <<>>
          /\ applied[PathOf(id)] = <<1, 2, 3>>

\* C4: the v1 script applied to a database in which all six tables exist
\* reports no error and leaves every table and column as it was.
C4_V1Idempotent ==
    (tLast.ver = 1 /\ SixTables \subseteq DOMAIN tLast.before) =>
        /\ tLast.ok
        /\ tLast.err = NoErr
        /\ tDb = tLast.before

C4_Witness ==
    /\ tSteps = 2
    /\ tLast.ver = 1
    /\ tLast.before = SchemaAt(1)
    /\ tLast.ok

\* C5: a startup that finds a database at checkpoint k in {0, 1, 2} (marker k,
\* schema as after v1..vk) and finishes it has applied k+1..3 and leaves the
\* schema that v1, v2, v3 produce from an empty database.
C5_Convergence ==
    \A id \in opened :
        LET k == atStart[id].marker
        IN  (k \in {0, 1, 2} /\ atStart[id].schema = SchemaAt(k)) =>
                /\ appliedNow[id] = VersionsAfter(k)
                /\ schema[PathOf(id)] = ApplyAll(get_migrations, EmptyDb)

C5_Witness ==
    /\ pc = "running"
    /\ opened = DbIds
    /\ atStart[PROD_DB].marker = 1
    /\ atStart[DEV_DB].marker = 2

\* C6: the two identifiers denote different files, a step changes the schema
\* or marker of at most the file the runner is working on, and a failing step
\* changes no file.
C6_Independent ==
    /\ [](PathOf(PROD_DB) # PathOf(DEV_DB))
    /\ [][ /\ \A f \in Files :
                (schema'[f] # schema[f] \/ marker'[f] # marker[f]) =>
                    /\ cur # NoDb
                    /\ PathOf(cur) = f
                    /\ \A g \in Files \ {f} :
                          schema'[g] = schema[g] /\ marker'[g] = marker[g]
           /\ (lastErr = NoErr /\ lastErr' # NoErr) =>
                  (schema' = schema /\ marker' = marker) ]_vars

C6_Witness ==
    /\ marker[PathOf(PROD_DB)] = 3
    /\ marker[PathOf(DEV_DB)] = 1
    /\ schema[PathOf(DEV_DB)] = SchemaAt(1)
    /\ cur = DEV_DB
    /\ lastErr # NoErr

C9_LaterScriptsNotIdempotent ==
    LET before == tLast.before
        hasCal == "calendarEvents" \in DOMAIN before
    IN  /\ (tLast.ver = 2 /\ hasCal /\ before["calendarEvents"] \cap RepeatCols # {}) =>
               (~tLast.ok /\ tLast.err = "duplicate column name")
        /\ (tLast.ver = 3 /\ hasCal /\ "color" \in before["calendarEvents"]) =>
               (~tLast.ok /\ tLast.err = "duplicate column name")

C9_Witness ==
    /\ tLast.ver = 3
    /\ ~tLast.ok
    /\ tLast.before = Section6

\* C10: for every database file the marker m stays in 0..3 and never
\* decreases, and the schema is exactly the one of version m.
C10_SchemaTracksMarker ==
    /\ [](\A f \in Files : marker[f] \in 0..3 /\ schema[f] = SchemaAt(marker[f]))
    /\ [][\A f \in Files : marker'[f] >= marker[f]]_vars

C10_Witness ==
    /\ starts = 3
    /\ lastErr = "disk I/O error"
    /\ \E f \in Files : marker[f] = 2 /\ schema[f] = SchemaAt(2)

====
